---- MODULE Spec2Model ----
(***************************************************************************)
(* Model of the peaktime sun module (sun-times.ts): the event-time solver, *)
(* the twilight-phase classifier and the event aggregator.                 *)
(*                                                                         *)
(* Number representation.  The source computes with IEEE doubles; the      *)
(* model computes with scaled integers:                                    *)
(*   angles            millidegrees            (1 degree  = 1000)          *)
(*   sines and cosines fixed point             (1.0       = One)           *)
(*   minute offsets    milliminutes            (1 minute  = 1000), rounded *)
(*                     as a double rounds where the spacing doubles (Fl)   *)
(* A Date is [nan, day, ms]: nan for an Invalid Date, otherwise the UTC    *)
(* day number since 1970-01-01 and the milliseconds elapsed in that day.   *)
(* A number that may be NaN is [nan, v].                                   *)
(***************************************************************************)
EXTENDS Integers, Sequences, FiniteSets

VARIABLES pc, date, coords, decl, eqTime, times, phaseLog, instant, position,
          options, again, mutated, calls, passed, request, result, previous

vars == <<pc, date, coords, decl, eqTime, times, phaseLog, instant, position,
          options, again, mutated, calls, passed, request, result, previous>>

\* the arguments and the result of calculateSunTimes
sunVars == <<date, coords, decl, eqTime, times>>
\* the argument and the result of getSunPosition
posVars == <<instant, position>>
\* what a caller does with a SunTimes: the options it passed, a second call for
\* the same day, an object it mutated afterwards
useVars == <<options, again, mutated>>
\* calls in progress at the same time, and the arguments they were passed
concVars == <<calls, passed>>
\* the arguments and the result of a planner call
planVars == <<request, result, previous>>

-----------------------------------------------------------------------------
(* Bounds of the model *)

\* largest |declination| (degrees) and |equation of time| (minutes) drawn for a day
MaxDecl == 24
MaxEqTime == 17
\* number of successive getTwilightPhase calls kept in phaseLog
MaxPhaseCalls == 2
\* number of calls in progress at the same time
MaxCalls == 2
\* largest change of the declination (millidegrees) and of the equation of time
\* (milliminutes) between noon UTC of a day and an event of that day
MaxDeclDrift == 300
MaxEqDrift == 400

-----------------------------------------------------------------------------
(* Numbers *)

One == 10000

Abs(x) == IF x < 0 THEN -x ELSE x

\* a / b rounded to the nearest integer (b # 0)
RoundDiv(a, b) ==
    LET s == IF (a < 0) = (b < 0) THEN 1 ELSE -1
    IN  s * ((2 * Abs(a) + Abs(b)) \div (2 * Abs(b)))

\* product of two fixed-point values
Mul(a, b) == RoundDiv(a * b, One)

\* Spacing of the representable minute values around x.  A double's spacing
\* doubles at every power of two, so a sum that crosses 1024 or 2048 minutes is
\* rounded; the model keeps that: its values are whole milliminutes below 1024
\* minutes, every 2nd milliminute from there to 2048 minutes, and so on.
Ulp(x) ==
    IF Abs(x) < 1024000 THEN 1
    ELSE IF Abs(x) < 2048000 THEN 2
    ELSE IF Abs(x) < 4096000 THEN 4
    ELSE 8

\* the result of an addition or subtraction: x rounded to the nearest
\* representable value, ties to the even one
Fl(x) ==
    LET u == Ulp(x)
        q == Abs(x) \div u
        r == Abs(x) % u
        m == IF 2 * r > u \/ (2 * r = u /\ q % 2 = 1) THEN (q + 1) * u ELSE q * u
    IN  IF x < 0 THEN -m ELSE m

\* mutant: whole minutes rounded down, also below zero
ToIntegerFloor(m) == m \div 1000

\* ToIntegerOrInfinity of a milliminute value: whole minutes, truncated toward zero
ToInteger(m) == IF m >= 0 THEN m \div 1000 ELSE -((-m) \div 1000)

NaN == [nan |-> TRUE, v |-> 0]
Num(x) == [nan |-> FALSE, v |-> x]

\* Math.sin for whole degrees 0..90, scaled by One
SinTab ==
    << 0, 175, 349, 523, 698, 872, 1045, 1219, 1392, 1564,
       1736, 1908, 2079, 2250, 2419, 2588, 2756, 2924, 3090, 3256,
       3420, 3584, 3746, 3907, 4067, 4226, 4384, 4540, 4695, 4848,
       5000, 5150, 5299, 5446, 5592, 5736, 5878, 6018, 6157, 6293,
       6428, 6561, 6691, 6820, 6947, 7071, 7193, 7314, 7431, 7547,
       7660, 7771, 7880, 7986, 8090, 8192, 8290, 8387, 8480, 8572,
       8660, 8746, 8829, 8910, 8988, 9063, 9135, 9205, 9272, 9336,
       9397, 9455, 9511, 9563, 9613, 9659, 9703, 9744, 9781, 9816,
       9848, 9877, 9903, 9925, 9945, 9962, 9976, 9986, 9994, 9998,
       10000 >>

\* sine of x millidegrees, 0 <= x <= 90000, interpolated between table entries
SinQ(x) ==
    LET k == x \div 1000
        f == x % 1000
    IN  IF f = 0 THEN SinTab[k + 1]
        ELSE SinTab[k + 1] + RoundDiv((SinTab[k + 2] - SinTab[k + 1]) * f, 1000)

\* Math.sin(x * DEG_TO_RAD), x in millidegrees
Sin(x) ==
    LET y == x % 360000
    IN  IF y <= 90000 THEN SinQ(y)
        ELSE IF y <= 180000 THEN SinQ(180000 - y)
        ELSE IF y <= 270000 THEN -SinQ(y - 180000)
        ELSE -SinQ(360000 - y)

\* Math.cos(x * DEG_TO_RAD), x in millidegrees
Cos(x) == Sin(x + 90000)

\* cosine of j whole degrees, 0 <= j <= 180
CosDeg(j) == IF j <= 90 THEN SinTab[91 - j] ELSE -SinTab[j - 89]

\* Math.acos(c) * RAD_TO_DEG in millidegrees, -One <= c <= One: the table read
\* backwards (AcosDeg finds the whole degree k with CosDeg(k) >= c >= CosDeg(k + 1)
\* by bisection), interpolated between entries
RECURSIVE AcosDeg(_, _, _)
AcosDeg(c, lo, hi) ==
    IF hi = lo + 1 THEN lo
    ELSE LET mid == (lo + hi) \div 2
         IN  IF CosDeg(mid) >= c THEN AcosDeg(c, mid, hi) ELSE AcosDeg(c, lo, mid)

Acos(c) ==
    LET k == AcosDeg(c, 0, 180)
        hi == CosDeg(k)
        lo == CosDeg(k + 1)
    IN  k * 1000 + RoundDiv((hi - c) * 1000, hi - lo)

-----------------------------------------------------------------------------
(* Dates *)

\* ECMAScript time values reach 100,000,000 days either side of the epoch
MaxDay == 100000000
MsPerDay == 86400000
MsPerMinute == 60000
MinutesPerDay == 1440

NaNDate == [nan |-> TRUE, day |-> 0, ms |-> 0]

\* TimeClip: the instant ms milliseconds into UTC day `day`, or Invalid Date
TimeClip(day, ms) ==
    IF day >= -MaxDay /\ (day < MaxDay \/ (day = MaxDay /\ ms = 0))
    THEN [nan |-> FALSE, day |-> day, ms |-> ms]
    ELSE NaNDate

\* mutant: setUTCHours(h), the minutes, seconds and milliseconds left as they are
setUTCHoursOnly(d, h) ==
    IF d.nan THEN NaNDate
    ELSE TimeClip(d.day, (h * 60 * MsPerMinute) + (d.ms % (60 * MsPerMinute)))

\* new Date(d); setUTCHours(h, 0, 0, 0)
setUTCHours(d, h) ==
    IF d.nan THEN NaNDate ELSE TimeClip(d.day, h * 60 * MsPerMinute)

\* (a.getTime() - b.getTime()) / (1000 * 60) for two valid dates that lie within
\* a few days of each other and differ by whole minutes
DiffMinutes(a, b) ==
    ((a.day - b.day) * MsPerDay + (a.ms - b.ms)) \div MsPerMinute

-----------------------------------------------------------------------------
(* solar-position.ts: Julian Day *)

\* The calendar fields of a Date, from its count of days since 1970-01-01 in the
\* proleptic Gregorian calendar (YearFromTime, MonthFromTime, DateFromTime).
\* Days are counted from 0000-03-01 in eras of 400 years (146097 days); a year
\* of an era begins on 1 March.
DayOfEra(z) == z % 146097
YearOfEra(doe) == (doe - (doe \div 1460) + (doe \div 36524) - (doe \div 146096)) \div 365
DayOfMarchYear(doe, yoe) == doe - (365 * yoe + (yoe \div 4) - (yoe \div 100))
\* months since March of a day of the year that begins on 1 March
MonthOfMarchYear(doy) == (5 * doy + 2) \div 153

\* date.getUTCMonth(): 0 for January
getUTCMonth(d) ==
    LET doe == DayOfEra(d.day + 719468)
        mp == MonthOfMarchYear(DayOfMarchYear(doe, YearOfEra(doe)))
    IN  IF mp < 10 THEN mp + 2 ELSE mp - 10

\* date.getUTCDate()
getUTCDate(d) ==
    LET doe == DayOfEra(d.day + 719468)
        doy == DayOfMarchYear(doe, YearOfEra(doe))
    IN  doy - ((153 * MonthOfMarchYear(doy) + 2) \div 5) + 1

\* date.getUTCFullYear()
getUTCFullYear(d) ==
    LET z == d.day + 719468
    IN  YearOfEra(DayOfEra(z)) + (z \div 146097) * 400
            + (IF getUTCMonth(d) <= 1 THEN 1 ELSE 0)

\* A Julian Day is held as a whole number of days and the seconds past it:
\* the value is whole + 1/2 + sec / 86400.  This is the sum of dateToJulianDay
\* before `+ 1721013.5 + hour / 24` is rounded to a double (an error below
\* 1e-9 day).
julianDayOf(year, month, day, sec) ==
    [ nan |-> FALSE,
      whole |-> 367 * year - ((7 * (year + ((month + 9) \div 12))) \div 4)
                    + ((275 * month) \div 9) + day + 1721013,
      sec |-> sec ]

NaNDay == [nan |-> TRUE, whole |-> 0, sec |-> 0]

\* mutant: the month taken as getUTCMonth() gives it, without the + 1
dateToJulianDayMonthFromZero(d) ==
    IF d.nan THEN NaNDay
    ELSE julianDayOf(getUTCFullYear(d), getUTCMonth(d), getUTCDate(d), d.ms \div 1000)

\* dateToJulianDay(date): the milliseconds of the instant are not read
dateToJulianDay(d) ==
    IF d.nan THEN NaNDay
    ELSE julianDayOf(getUTCFullYear(d), getUTCMonth(d) + 1, getUTCDate(d), d.ms \div 1000)

\* julianDayToJulianCentury(jd): T = (jd - 2451545) / 36525, held as the days
\* and seconds since 2000-01-01 12:00 that are divided by 36525 (0 <= sec < 86400)
julianDayToJulianCentury(jd) ==
    IF jd.nan THEN NaNDay
    ELSE [ nan |-> FALSE,
           whole |-> jd.whole - 2451545 + ((jd.sec + 43200) \div 86400),
           sec |-> (jd.sec + 43200) % 86400 ]

\* 280.46646 + T * (36000.76983 + 0.0003032 * T) before it is normalised, in
\* millidegrees.  T is the days and seconds since 2000-01-01 12:00 divided by
\* 36525, so the sum is taken in microdegrees (985647 a day, 11.408 a second,
\* 303.2 * T * T) and rounded once, as the double is; the days are kept within
\* a few years of 2000.
meanLongitudeOf(T) ==
    RoundDiv(280466460 + T.whole * 985647 + ((T.sec * 11408) \div 1000)
                 + ((303 * T.whole * T.whole) \div (36525 * 36525)), 1000)

\* while (L0 > 360) L0 -= 360
RECURSIVE whileAbove360(_)
whileAbove360(L0) == IF L0 > 360000 THEN whileAbove360(L0 - 360000) ELSE L0

\* while (L0 < 0) L0 += 360
RECURSIVE whileBelow0(_)
whileBelow0(L0) == IF L0 < 0 THEN whileBelow0(L0 + 360000) ELSE L0

\* sunGeometricMeanLongitude(T), in millidegrees; every comparison with NaN is
\* false, so NaN passes both loops
sunGeometricMeanLongitude(T) ==
    IF T.nan THEN NaN ELSE Num(whileBelow0(whileAbove360(meanLongitudeOf(T))))

-----------------------------------------------------------------------------
(* sun-times.ts *)

SUNRISE_SUNSET_ANGLE == -833
CIVIL_TWILIGHT_ANGLE == -6000
NAUTICAL_TWILIGHT_ANGLE == -12000
ASTRONOMICAL_TWILIGHT_ANGLE == -18000
GOLDEN_HOUR_END_ANGLE == 6000
BLUE_HOUR_END_ANGLE == -4000

\* cosHA of hourAngleForElevation.  Math.cos(lat) of a latitude of exactly
\* +-90 degrees is 6.1e-17, not 0, so the division never has a zero divisor:
\* the quotient is 0 for a zero dividend and far outside [-1, 1] otherwise.
Quotient(num, den) == IF den = 0 THEN num * 2 * One ELSE RoundDiv(num * One, den)

cosHA(lat, dc, elevation) ==
    Quotient(Sin(elevation) - Mul(Sin(lat), Sin(dc)), Mul(Cos(lat), Cos(dc)))

\* the guard of hourAngleForElevation and its Math.acos(cosHA) * RAD_TO_DEG
hourAngleOfCosine(c) == IF c > One \/ c < -One THEN NaN ELSE Num(Acos(c))

hourAngleForElevation(lat, dc, elevation) == hourAngleOfCosine(cosHA(lat, dc, elevation))

solarNoonMinutes(longitude, eq) == Fl(Fl(720000 - 4 * longitude) - eq)

\* mutant: the morning and the evening crossing exchanged
sunEventMinutesSwapped(longitude, eq, hourAngle, isMorning) ==
    LET noon == solarNoonMinutes(longitude, eq)
    IN  IF isMorning THEN Fl(noon + hourAngle * 4) ELSE Fl(noon - hourAngle * 4)

sunEventMinutes(longitude, eq, hourAngle, isMorning) ==
    LET noon == solarNoonMinutes(longitude, eq)
    IN  IF isMorning THEN Fl(noon - hourAngle * 4) ELSE Fl(noon + hourAngle * 4)

minutesToDate(baseDate, minutesUTC) ==
    IF baseDate.nan THEN NaNDate
    ELSE LET m == ToInteger(minutesUTC)
         IN  TimeClip(baseDate.day + (m \div MinutesPerDay),
                      (m % MinutesPerDay) * MsPerMinute)

\* mutant: thresholds compared with >= instead of >
getTwilightPhaseInclusive(elevation) ==
    IF elevation >= GOLDEN_HOUR_END_ANGLE THEN "day"
    ELSE IF elevation >= 0 THEN "golden"
    ELSE IF elevation >= CIVIL_TWILIGHT_ANGLE THEN "civil"
    ELSE IF elevation >= NAUTICAL_TWILIGHT_ANGLE THEN "nautical"
    ELSE IF elevation >= ASTRONOMICAL_TWILIGHT_ANGLE THEN "astronomical"
    ELSE "night"

\* mutant: the civil and the nautical label exchanged
getTwilightPhaseMislabelled(elevation) ==
    IF elevation > GOLDEN_HOUR_END_ANGLE THEN "day"
    ELSE IF elevation > 0 THEN "golden"
    ELSE IF elevation > CIVIL_TWILIGHT_ANGLE THEN "nautical"
    ELSE IF elevation > NAUTICAL_TWILIGHT_ANGLE THEN "civil"
    ELSE IF elevation > ASTRONOMICAL_TWILIGHT_ANGLE THEN "astronomical"
    ELSE "night"

getTwilightPhase(elevation) ==
    IF elevation > GOLDEN_HOUR_END_ANGLE THEN "day"
    ELSE IF elevation > 0 THEN "golden"
    ELSE IF elevation > CIVIL_TWILIGHT_ANGLE THEN "civil"
    ELSE IF elevation > NAUTICAL_TWILIGHT_ANGLE THEN "nautical"
    ELSE IF elevation > ASTRONOMICAL_TWILIGHT_ANGLE THEN "astronomical"
    ELSE "night"

\* date.getUTCHours() * 60 + date.getUTCMinutes() + date.getUTCSeconds() / 60,
\* in milliminutes: the milliseconds of the instant are not read
currentMinutes(d) ==
    LET sec == d.ms \div 1000
    IN  (sec \div 60) * 1000 + RoundDiv((sec % 60) * 1000, 60)

\* (currentMinutes - solarNoon), the hour angle of getSunPosition times 4: the
\* division by 4 is exact in a double, so the sign of this difference is the
\* sign of hourAngle
hourAngleMinutes(d, longitude, eq) ==
    Fl(currentMinutes(d) - solarNoonMinutes(longitude, eq))

\* sinElev of getSunPosition for an hour angle in millidegrees
sinElevation(lat, dc, hourAngle) ==
    Mul(Sin(lat), Sin(dc)) + Mul(Mul(Cos(lat), Cos(dc)), Cos(hourAngle))

\* Math.asin(s) * RAD_TO_DEG: NaN for an argument outside [-1, 1]
Asin(s) == IF s > One \/ s < -One THEN NaN ELSE Num(90000 - Acos(s))

\* cosAz of getSunPosition.  As in cosHA the divisor is never 0 in a double
\* (Math.cos of 90 degrees is 6.1e-17): the quotient is 0 for a zero dividend
\* and far outside [-1, 1] otherwise.
cosAzimuth(lat, dc, sinElev, elevation) ==
    Quotient(Sin(dc) - Mul(Sin(lat), sinElev), Mul(Cos(lat), Cos(elevation)))

\* Math.max(-1, Math.min(1, x))
Clamp(x) == IF x > One THEN One ELSE IF x < -One THEN -One ELSE x

\* mutant: the elevation measured from the zenith (acos instead of asin)
getSunPositionFromZenith(d, c, dc, eq) ==
    IF d.nan THEN [elevation |-> NaN, azimuth |-> NaN]
    ELSE LET ha4 == hourAngleMinutes(d, c.longitude, eq)
             sinElev == sinElevation(c.latitude, dc, RoundDiv(ha4, 4))
             elevation == Asin(sinElev)
         IN  IF elevation.nan THEN [elevation |-> NaN, azimuth |-> NaN]
             ELSE LET az == Acos(Clamp(cosAzimuth(c.latitude, dc, sinElev, elevation.v)))
                  IN  [ elevation |-> Num(90000 - elevation.v),
                        azimuth |-> Num(IF ha4 > 0 THEN 360000 - az ELSE az) ]

\* getSunPosition(date, coords); dc and eq are sunDeclination(T) and
\* equationOfTime(T) at the instant.  An elevation of NaN (asin of a sinElev
\* that rounding pushed past 1) makes cosAz and the azimuth NaN as well.
getSunPosition(d, c, dc, eq) ==
    IF d.nan THEN [elevation |-> NaN, azimuth |-> NaN]
    ELSE LET ha4 == hourAngleMinutes(d, c.longitude, eq)
             sinElev == sinElevation(c.latitude, dc, RoundDiv(ha4, 4))
             elevation == Asin(sinElev)
         IN  IF elevation.nan THEN [elevation |-> NaN, azimuth |-> NaN]
             ELSE LET az == Acos(Clamp(cosAzimuth(c.latitude, dc, sinElev, elevation.v)))
                  IN  [ elevation |-> elevation,
                        azimuth |-> Num(IF ha4 > 0 THEN 360000 - az ELSE az) ]

\* mutant: the fallback instants of morning and evening exchanged
getEventTimeFallbackSwapped(baseDate, c, dc, eq, angle, isMorning) ==
    LET ha == hourAngleForElevation(c.latitude, dc, angle)
    IN  IF ha.nan
        THEN LET noon == solarNoonMinutes(c.longitude, eq)
             IN  minutesToDate(baseDate, IF isMorning THEN Fl(noon + 720000) ELSE Fl(noon - 720000))
        ELSE minutesToDate(baseDate, sunEventMinutes(c.longitude, eq, ha.v, isMorning))

\* mutant: the fallback a whole day from solar noon instead of half a day
getEventTimeFallbackFullDay(baseDate, c, dc, eq, angle, isMorning) ==
    LET ha == hourAngleForElevation(c.latitude, dc, angle)
    IN  IF ha.nan
        THEN LET noon == solarNoonMinutes(c.longitude, eq)
             IN  minutesToDate(baseDate, IF isMorning THEN Fl(noon - 1440000) ELSE Fl(noon + 1440000))
        ELSE minutesToDate(baseDate, sunEventMinutes(c.longitude, eq, ha.v, isMorning))

\* mutant: the fallback told apart by its cause, both instants at solar noon
\* when the sun stays below the angle
getEventTimeByCause(baseDate, c, dc, eq, angle, isMorning) ==
    LET ha == hourAngleForElevation(c.latitude, dc, angle)
        noon == solarNoonMinutes(c.longitude, eq)
    IN  IF ha.nan
        THEN IF cosHA(c.latitude, dc, angle) > One
             THEN minutesToDate(baseDate, noon)
             ELSE minutesToDate(baseDate, IF isMorning THEN Fl(noon - 720000) ELSE Fl(noon + 720000))
        ELSE minutesToDate(baseDate, sunEventMinutes(c.longitude, eq, ha.v, isMorning))

\* the two branches of getEventTime for a solved hour angle ha: the fallback
\* 12 h from solar noon when ha is NaN, the crossing otherwise
eventMinutes(longitude, eq, ha, isMorning) ==
    IF ha.nan
    THEN Fl(solarNoonMinutes(longitude, eq) + (IF isMorning THEN -720000 ELSE 720000))
    ELSE sunEventMinutes(longitude, eq, ha.v, isMorning)

\* the closure getEventTime of calculateSunTimes, its captured variables as parameters
getEventTime(baseDate, c, dc, eq, angle, isMorning) ==
    minutesToDate(baseDate,
                  eventMinutes(c.longitude, eq,
                               hourAngleForElevation(c.latitude, dc, angle), isMorning))

\* dayLength = (sunset.getTime() - sunrise.getTime()) / (1000 * 60)
dayLengthOf(sunrise, sunset) ==
    IF sunrise.nan \/ sunset.nan THEN NaN ELSE Num(DiffMinutes(sunset, sunrise))

\* mutant: golden hour solved on its own, at elevation 0, instead of aliasing
\* sunrise and sunset
calculateSunTimesGoldenAtHorizon(d, c, dc, eq) ==
    LET baseDate == setUTCHours(d, 12)
        sunrise == getEventTime(baseDate, c, dc, eq, SUNRISE_SUNSET_ANGLE, TRUE)
        sunset == getEventTime(baseDate, c, dc, eq, SUNRISE_SUNSET_ANGLE, FALSE)
        solarNoon == minutesToDate(baseDate, solarNoonMinutes(c.longitude, eq))
        civilTwilightStart == getEventTime(baseDate, c, dc, eq, CIVIL_TWILIGHT_ANGLE, TRUE)
        civilTwilightEnd == getEventTime(baseDate, c, dc, eq, CIVIL_TWILIGHT_ANGLE, FALSE)
    IN  [ date |-> baseDate,
          coordinates |-> c,
          sunrise |-> sunrise,
          sunset |-> sunset,
          solarNoon |-> solarNoon,
          civilTwilightStart |-> civilTwilightStart,
          civilTwilightEnd |-> civilTwilightEnd,
          nauticalTwilightStart |->
              getEventTime(baseDate, c, dc, eq, NAUTICAL_TWILIGHT_ANGLE, TRUE),
          nauticalTwilightEnd |->
              getEventTime(baseDate, c, dc, eq, NAUTICAL_TWILIGHT_ANGLE, FALSE),
          astronomicalTwilightStart |->
              getEventTime(baseDate, c, dc, eq, ASTRONOMICAL_TWILIGHT_ANGLE, TRUE),
          astronomicalTwilightEnd |->
              getEventTime(baseDate, c, dc, eq, ASTRONOMICAL_TWILIGHT_ANGLE, FALSE),
          goldenHourMorningStart |-> getEventTime(baseDate, c, dc, eq, 0, TRUE),
          goldenHourMorningEnd |->
              getEventTime(baseDate, c, dc, eq, GOLDEN_HOUR_END_ANGLE, TRUE),
          goldenHourEveningStart |->
              getEventTime(baseDate, c, dc, eq, GOLDEN_HOUR_END_ANGLE, FALSE),
          goldenHourEveningEnd |-> getEventTime(baseDate, c, dc, eq, 0, FALSE),
          blueHourMorningStart |-> civilTwilightStart,
          blueHourMorningEnd |->
              getEventTime(baseDate, c, dc, eq, BLUE_HOUR_END_ANGLE, TRUE),
          blueHourEveningStart |->
              getEventTime(baseDate, c, dc, eq, BLUE_HOUR_END_ANGLE, FALSE),
          blueHourEveningEnd |-> civilTwilightEnd,
          dayLength |-> dayLengthOf(sunrise, sunset) ]

\* calculateSunTimes(date, coords); dc and eq are the day's sunDeclination(T)
\* and equationOfTime(T)
calculateSunTimes(d, c, dc, eq) ==
    LET baseDate == setUTCHours(d, 12)
        sunrise == getEventTime(baseDate, c, dc, eq, SUNRISE_SUNSET_ANGLE, TRUE)
        sunset == getEventTime(baseDate, c, dc, eq, SUNRISE_SUNSET_ANGLE, FALSE)
        solarNoon == minutesToDate(baseDate, solarNoonMinutes(c.longitude, eq))
        civilTwilightStart == getEventTime(baseDate, c, dc, eq, CIVIL_TWILIGHT_ANGLE, TRUE)
        civilTwilightEnd == getEventTime(baseDate, c, dc, eq, CIVIL_TWILIGHT_ANGLE, FALSE)
    IN  [ date |-> baseDate,
          coordinates |-> c,
          sunrise |-> sunrise,
          sunset |-> sunset,
          solarNoon |-> solarNoon,
          civilTwilightStart |-> civilTwilightStart,
          civilTwilightEnd |-> civilTwilightEnd,
          nauticalTwilightStart |->
              getEventTime(baseDate, c, dc, eq, NAUTICAL_TWILIGHT_ANGLE, TRUE),
          nauticalTwilightEnd |->
              getEventTime(baseDate, c, dc, eq, NAUTICAL_TWILIGHT_ANGLE, FALSE),
          astronomicalTwilightStart |->
              getEventTime(baseDate, c, dc, eq, ASTRONOMICAL_TWILIGHT_ANGLE, TRUE),
          astronomicalTwilightEnd |->
              getEventTime(baseDate, c, dc, eq, ASTRONOMICAL_TWILIGHT_ANGLE, FALSE),
          goldenHourMorningStart |-> sunrise,
          goldenHourMorningEnd |->
              getEventTime(baseDate, c, dc, eq, GOLDEN_HOUR_END_ANGLE, TRUE),
          goldenHourEveningStart |->
              getEventTime(baseDate, c, dc, eq, GOLDEN_HOUR_END_ANGLE, FALSE),
          goldenHourEveningEnd |-> sunset,
          blueHourMorningStart |-> civilTwilightStart,
          blueHourMorningEnd |->
              getEventTime(baseDate, c, dc, eq, BLUE_HOUR_END_ANGLE, TRUE),
          blueHourEveningStart |->
              getEventTime(baseDate, c, dc, eq, BLUE_HOUR_END_ANGLE, FALSE),
          blueHourEveningEnd |-> civilTwilightEnd,
          dayLength |-> dayLengthOf(sunrise, sunset) ]

\* minutes east of UTC of the time zones a caller names
TimezoneOffset(o) ==
    CASE o.timezone = "America/Denver" -> -420
      [] o.timezone = "Asia/Tokyo" -> 540
      [] OTHER -> 0

\* mutant: the events expressed in the time zone of the options
calculateSunTimesInTimezone(d, c, o, dc, eq) ==
    LET t == calculateSunTimes(d, c, dc, eq)
        shift(x) == IF x.nan THEN x
                    ELSE minutesToDate(x, (x.ms \div MsPerMinute + TimezoneOffset(o)) * 1000)
    IN  [t EXCEPT !.sunrise = shift(@), !.sunset = shift(@), !.solarNoon = shift(@)]

\* calculateSunTimes(date, coords, _options): the body never reads _options
calculateSunTimesWithOptions(d, c, o, dc, eq) == calculateSunTimes(d, c, dc, eq)

\* the object each field of the returned SunTimes refers to: baseDate and the
\* Dates made by minutesToDate are new objects, coordinates is the caller's
\* object, and the four derived boundaries are the objects of the events they
\* repeat
SunTimesObjects ==
    [ date |-> "baseDate",
      coordinates |-> "coords",
      sunrise |-> "sunrise",
      sunset |-> "sunset",
      solarNoon |-> "solarNoon",
      civilTwilightStart |-> "civilTwilightStart",
      civilTwilightEnd |-> "civilTwilightEnd",
      nauticalTwilightStart |-> "nauticalTwilightStart",
      nauticalTwilightEnd |-> "nauticalTwilightEnd",
      astronomicalTwilightStart |-> "astronomicalTwilightStart",
      astronomicalTwilightEnd |-> "astronomicalTwilightEnd",
      goldenHourMorningStart |-> "sunrise",
      goldenHourMorningEnd |-> "goldenHourMorningEnd",
      goldenHourEveningStart |-> "goldenHourEveningStart",
      goldenHourEveningEnd |-> "sunset",
      blueHourMorningStart |-> "civilTwilightStart",
      blueHourMorningEnd |-> "blueHourMorningEnd",
      blueHourEveningStart |-> "blueHourEveningStart",
      blueHourEveningEnd |-> "civilTwilightEnd",
      dayLength |-> "dayLength" ]

-----------------------------------------------------------------------------
(* common/types.ts, common/planner.ts, common/planner-factory.ts *)

DEFAULT_BUFFER_MINUTES == 10

SunriseTargets ==
    { "sunrise", "goldenHourStart", "goldenHourEnd", "blueHourStart", "blueHourEnd" }
SunsetTargets ==
    { "sunset", "goldenHourEveningStart", "goldenHourEveningEnd", "blueHourEveningStart",
      "blueHourEveningEnd" }
SunTargets == SunriseTargets \cup SunsetTargets

\* mutant: only the target "sunrise" itself taken for a sunrise target
isSunriseTargetByName(target) == target = "sunrise"

isSunriseTarget(target) == target \in SunriseTargets

\* mutant: goldenHourEnd resolved to sunrise and goldenHourEveningStart to sunset
getTargetTimeGoldenAtHorizon(sunTimes, target) ==
    CASE target \in {"sunrise", "goldenHourStart", "goldenHourEnd"} -> sunTimes.sunrise
      [] target = "blueHourStart" -> sunTimes.civilTwilightStart
      [] target = "blueHourEnd" -> sunTimes.blueHourMorningEnd
      [] target \in {"sunset", "goldenHourEveningEnd", "goldenHourEveningStart"} ->
             sunTimes.sunset
      [] target = "blueHourEveningStart" -> sunTimes.blueHourEveningStart
      [] target = "blueHourEveningEnd" -> sunTimes.civilTwilightEnd

getTargetTime(sunTimes, target) ==
    CASE target \in {"sunrise", "goldenHourStart"} -> sunTimes.sunrise
      [] target = "goldenHourEnd" -> sunTimes.goldenHourMorningEnd
      [] target = "blueHourStart" -> sunTimes.civilTwilightStart
      [] target = "blueHourEnd" -> sunTimes.blueHourMorningEnd
      [] target \in {"sunset", "goldenHourEveningEnd"} -> sunTimes.sunset
      [] target = "goldenHourEveningStart" -> sunTimes.goldenHourEveningStart
      [] target = "blueHourEveningStart" -> sunTimes.blueHourEveningStart
      [] target = "blueHourEveningEnd" -> sunTimes.civilTwilightEnd

\* The loop of findHighPointIndex from point i on: maxIndex is the first point
\* whose elevation exceeds every earlier one; found is FALSE while maxEle is
\* -Infinity.  A route is its sequence of points, indexed from 1.
RECURSIVE highPointFrom(_, _, _, _, _)
highPointFrom(route, i, found, maxEle, maxIndex) ==
    IF i > Len(route) THEN maxIndex
    ELSE IF ~found \/ route[i].ele > maxEle
         THEN highPointFrom(route, i + 1, TRUE, route[i].ele, i)
         ELSE highPointFrom(route, i + 1, found, maxEle, maxIndex)

\* findHighPointIndex(route) of a route that is not empty
findHighPointIndex(route) == highPointFrom(route, 1, FALSE, 0, 1)

\* route.points.slice(0, endIndex + 1), endIndex counted from 1 here
getRouteToIndex(route, endIndex) == SubSeq(route, 1, endIndex)

getDestinationCoordinates(route) ==
    LET point == route[findHighPointIndex(route)]
    IN  [latitude |-> point.lat, longitude |-> point.lon]

\* the estimator of the planner's configuration (the tests' mockConfig):
\* estimate and extractDuration, in milliminutes
estimateDuration(points, params) == Len(points) * 2 * params.speedFactor * 1000
defaultParams == [speedFactor |-> 1]
\* defaultNightMultiplier 0.8, in tenths
defaultNightMultiplier == 8

\* the instant delta milliseconds after d
AddMs(d, delta) ==
    IF d.nan THEN NaNDate
    ELSE TimeClip(d.day + ((d.ms + delta) \div MsPerDay), (d.ms + delta) % MsPerDay)

\* a.getTime() - b.getTime() of two valid dates a few days apart
DiffMs(a, b) == (a.day - b.day) * MsPerDay + (a.ms - b.ms)

\* the least integer not below a / b, b > 0
CeilDiv(a, b) == -((-a) \div b)

\* new Date(d); setHours(h, 0, 0, 0); setDate(getDate() - back): h o'clock of
\* the local calendar day of d, back days earlier, in a time zone tz minutes
\* east of UTC
localHourOfDay(d, tz, h, back) ==
    IF d.nan THEN NaNDate
    ELSE LET localDay == d.day + ((d.ms + tz * MsPerMinute) \div MsPerDay)
         IN  AddMs([nan |-> FALSE, day |-> localDay - back, ms |-> 0],
                   (h * 60 - tz) * MsPerMinute)

\* an option of the call, or its default when the option is not given
Option(o, name, default) == IF name \in DOMAIN o THEN o[name] ELSE default

\* the value of an optional field that is not set
Undefined == [undefined |-> TRUE]

\* the second half of plan: the start time, the feasibility check and the
\* returned ActivityPlan, from the target time, the buffer, the duration in
\* minutes (milliminutes) and in whole milliseconds, and the cutoff
activityPlan(target, targetTime, bufferMinutes, durationMinutes, durationMs, cutoff) ==
    LET startTime == AddMs(targetTime, -(bufferMinutes * MsPerMinute) - durationMs)
        \* startTime >= cutoff; a comparison with an invalid date is false
        feasible == /\ ~startTime.nan
                    /\ ~cutoff.nan
                    /\ DiffMs(startTime, cutoff) >= 0
        \* Math.round of the minutes between startTime and the cutoff
        shortBy == IF feasible THEN Undefined
                   ELSE IF startTime.nan \/ cutoff.nan THEN NaN
                   ELSE Num((DiffMs(cutoff, startTime) + MsPerMinute \div 2)
                                \div MsPerMinute)
    IN  [ target |-> target,
          targetTime |-> targetTime,
          bufferMinutes |-> bufferMinutes,
          startTime |-> startTime,
          durationMinutes |-> durationMinutes,
          feasible |-> feasible,
          shortBy |-> shortBy ]

\* plan(route, date, coordinates, target, options) in a time zone tz minutes
\* east of UTC; dc and eq are the day's declination and equation of time
plan(route, d, c, target, o, tz, dc, eq) ==
    LET resolvedParams == Option(o, "params", defaultParams)
        applyNightAdjustment == Option(o, "applyNightAdjustment", TRUE)
        nightMultiplier == Option(o, "nightMultiplier", defaultNightMultiplier)
        routeToHighPoint == getRouteToIndex(route, findHighPointIndex(route))
        estimated == estimateDuration(routeToHighPoint, resolvedParams)
        night == isSunriseTarget(target) /\ applyNightAdjustment
    IN  activityPlan(target,
                     getTargetTime(calculateSunTimes(d, c, dc, eq), target),
                     Option(o, "bufferMinutes", DEFAULT_BUFFER_MINUTES),
                     IF night THEN RoundDiv(estimated * 10, nightMultiplier) ELSE estimated,
                     \* durationMinutes * 60 * 1000; new Date drops the fraction
                     \* of a millisecond
                     IF night THEN CeilDiv(estimated * 600, nightMultiplier)
                     ELSE estimated * 60,
                     IF isSunriseTarget(target) THEN localHourOfDay(d, tz, 22, 1)
                     ELSE localHourOfDay(d, tz, 6, 0))

\* the three targets planned for a mode
ModeTargets(mode) ==
    IF mode = "sunrise" THEN <<"blueHourStart", "sunrise", "goldenHourEnd">>
    ELSE <<"goldenHourEveningStart", "sunset", "blueHourEveningEnd">>

planAllOptions(route, d, c, mode, o, tz, dc, eq) ==
    LET targets == ModeTargets(mode)
    IN  [i \in DOMAIN targets |-> plan(route, d, c, targets[i], o, tz, dc, eq)]

\* mutant: the alternatives are all three targets of the mode, the primary kept
createSummaryUnfiltered(route, d, target, o, tz, dc, eq) ==
    LET coordinates == getDestinationCoordinates(route)
        routeToHighPoint == getRouteToIndex(route, findHighPointIndex(route))
        mode == IF isSunriseTarget(target) THEN "sunrise" ELSE "sunset"
        allTargets == ModeTargets(mode)
    IN  [ plan |-> plan(route, d, coordinates, target, o, tz, dc, eq),
          alternatives |->
              [i \in DOMAIN allTargets |->
                  plan(route, d, coordinates, allTargets[i], o, tz, dc, eq)],
          estimate |-> estimateDuration(routeToHighPoint, Option(o, "params", defaultParams)),
          sunTimes |-> calculateSunTimes(d, coordinates, dc, eq),
          coordinates |-> coordinates ]

createSummary(route, d, target, o, tz, dc, eq) ==
    LET coordinates == getDestinationCoordinates(route)
        routeToHighPoint == getRouteToIndex(route, findHighPointIndex(route))
        mode == IF isSunriseTarget(target) THEN "sunrise" ELSE "sunset"
        allTargets == SelectSeq(ModeTargets(mode), LAMBDA t : t # target)
    IN  [ plan |-> plan(route, d, coordinates, target, o, tz, dc, eq),
          alternatives |->
              [i \in DOMAIN allTargets |->
                  plan(route, d, coordinates, allTargets[i], o, tz, dc, eq)],
          estimate |-> estimateDuration(routeToHighPoint, Option(o, "params", defaultParams)),
          sunTimes |-> calculateSunTimes(d, coordinates, dc, eq),
          coordinates |-> coordinates ]

-----------------------------------------------------------------------------
(* Inputs *)

\* instants inside the algorithm's documented range:
\* 2025-06-21T00:00:00Z and 2026-01-26T15:30:00Z
Dates ==
    { [nan |-> FALSE, day |-> 20260, ms |-> 0],
      [nan |-> FALSE, day |-> 20479, ms |-> 55800000] }

\* coordinates within the invariants of the Coordinates type
Latitudes ==
    { -90000, -70000, -60000, -33500, 0, 37924, 60000, 65000, 70000, 84000, 90000 }
Longitudes == { -180000, -122597, -70000, 0, 20000, 180000 }
Coordinates == [latitude : Latitudes, longitude : Longitudes]

\* values of sunDeclination(T), millidegrees
Declinations == { -MaxDecl * 1000, -14000, 0, 14000, MaxDecl * 1000 }
\* values of equationOfTime(T), milliminutes
EqTimes == { -MaxEqTime * 1000, -3250, -999, 0, 6500, MaxEqTime * 1000 }

\* any valid Date: an ordinary instant and the last instant of the ECMAScript
\* time range, new Date(8.64e15)
AnyDates ==
    { [nan |-> FALSE, day |-> 20479, ms |-> 55800000],
      [nan |-> FALSE, day |-> MaxDay, ms |-> 0] }

\* any finite coordinates, also outside the ranges of the Coordinates type
AnyCoordinates ==
    [latitude : { -90000, 0, 37924, 70000, 90000, 100000, 135000 },
     longitude : { -180000, 0, 20000, 400000, 540000 }]

\* instants passed to getSunPosition: 2025-06-21T00:00:00Z, and on 2026-01-26
\* 12:00:00.999Z, 12:00:01Z, 15:30:00Z and 23:00:00Z, and 2026-01-27T01:26:00Z
Instants ==
    { [nan |-> FALSE, day |-> 20260, ms |-> 0],
      [nan |-> FALSE, day |-> 20479, ms |-> 43200999],
      [nan |-> FALSE, day |-> 20479, ms |-> 43201000],
      [nan |-> FALSE, day |-> 20479, ms |-> 55800000],
      [nan |-> FALSE, day |-> 20479, ms |-> 82800000],
      [nan |-> FALSE, day |-> 20480, ms |-> 5160000] }

\* values of sunDeclination(T) at the instants passed to getSunPosition: those
\* of the day, and 13 degrees for the sun overhead at latitude 13
PositionDeclinations == Declinations \cup {13000}

\* coordinates passed to getSunPosition
PositionCoordinates ==
    [latitude : { -90000, -33500, 0, 13000, 14000, 37924, 90000 },
     longitude : { -180000, -122597, 0, 180000 }]

\* coordinates of the calls whose result the caller goes on to use
CallCoordinates ==
    [latitude : { -33500, 37924, 40000, 70000 }, longitude : { -122597, 20000 }]

CallEqTimes == { -3250, 6500 }

\* sunDeclination(T) and equationOfTime(T) at an event of the day, less those at
\* noon UTC of the day
Drifts ==
    { [decl |-> -MaxDeclDrift, eqTime |-> -MaxEqDrift],
      [decl |-> 0, eqTime |-> 0],
      [decl |-> MaxDeclDrift, eqTime |-> MaxEqDrift] }

\* the options argument: omitted, or naming a time zone
Options == { [timezone |-> tz] : tz \in {"undefined", "UTC", "America/Denver"} }

\* instants of the UTC calendar day of d: its first and second millisecond, its
\* noon and its last millisecond
SameDayInstants(d) ==
    { [nan |-> FALSE, day |-> d.day, ms |-> m] : m \in {0, 1, 43200000, 86399999} }

\* the fields of a result a caller mutates in place, and the time it sets
MutatedFields == { "sunrise", "sunset", "civilTwilightStart", "solarNoon" }
Epoch == [nan |-> FALSE, day |-> 0, ms |-> 0]

\* declinations and elevations of the concurrent calls
ConcurrentDeclinations == { -14000, 14000 }
ConcurrentElevations == { -6000, 3000 }

\* routes: up Mt. Tamalpais and down again, and single points on the Norwegian
\* coast and on Svalbard's latitude circle
Routes ==
    { << [lat |-> 37900, lon |-> -122500, ele |-> 100],
         [lat |-> 37924, lon |-> -122597, ele |-> 784],
         [lat |-> 37910, lon |-> -122550, ele |-> 500] >>,
      << [lat |-> 70000, lon |-> 20000, ele |-> 10] >>,
      << [lat |-> 84000, lon |-> 20000, ele |-> 10],
         [lat |-> 84000, lon |-> 20000, ele |-> 10] >> }

\* the coordinates argument of plan and planAllOptions
PlanCoordinates == { getDestinationCoordinates(r) : r \in Routes }

\* the options of a planner call: none, or a buffer, a slower estimate and no
\* night adjustment
PlannerOptions ==
    { <<>>,
      [bufferMinutes |-> 30, params |-> [speedFactor |-> 30],
       applyNightAdjustment |-> FALSE] }

\* the options of a call of plan: none; a buffer, a slower estimate and no night
\* adjustment; a night multiplier of 0.7 with the adjustment asked for; a far
\* slower estimate
PlanOptions ==
    PlannerOptions \cup
    { [nightMultiplier |-> 7, applyNightAdjustment |-> TRUE],
      [nightMultiplier |-> 7, params |-> [speedFactor |-> 2]],
      [params |-> [speedFactor |-> 200]] }

\* the routes of a call of plan: those above and a climb on Nordaustlandet
PlanRoutes ==
    Routes \cup
    { << [lat |-> 79900, lon |-> 25500, ele |-> 20],
         [lat |-> 80000, lon |-> 25600, ele |-> 400] >> }

\* base dates of minutesToDate: the epoch, the last millisecond of 1999, noon of
\* the last day of February 2024, the first instant and an afternoon of days in
\* the algorithm's range, and an Invalid Date
BaseDates ==
    { Epoch,
      [nan |-> FALSE, day |-> 10956, ms |-> 86399999],
      [nan |-> FALSE, day |-> 19782, ms |-> 43200000],
      [nan |-> FALSE, day |-> 20260, ms |-> 0],
      [nan |-> FALSE, day |-> 20479, ms |-> 55800000],
      NaNDate }

\* minute offsets in milliminutes: whole and fractional, negative, within the
\* day, and beyond one and two days
MinuteOffsets ==
    { -2880000, -1440500, -1440000, -720250, -81800, -60000, -1000, -999, -500, -1,
      0, 1, 500, 999, 1000, 59999, 638199, 720000, 1358200, 1439000, 1439999,
      1440000, 1440001, 2160500, 2880000, 4320750 }

\* the dates of a call of dateToJulianDay: every day from 1899-12-31 to
\* 2101-01-01, at midnight, at noon and at the last second of the day
FirstJulianDate == -25568
LastJulianDate == 47847
JulianDates ==
    [nan : {FALSE}, day : FirstJulianDate .. LastJulianDate,
     ms : {0, 43200000, 86399000}]

\* the dates whose mean longitude is asked for: every day from 1998-01-31 to
\* 2002-03-11 at midnight, at noon and at the last second of the day, and every
\* minute of the three days on which the mean longitude passes 0, 360 and 720
\* degrees (1999-03-22, 2000-03-22, 2001-03-22)
FirstLongitudeDate == 10257
LastLongitudeDate == 11757
MeanEquinoxDays == {10672, 11038, 11403}
LongitudeDates ==
    [nan : {FALSE}, day : FirstLongitudeDate .. LastLongitudeDate,
     ms : {0, 43200000, 86399000}]
    \cup [nan : {FALSE}, day : MeanEquinoxDays, ms : {60000 * m : m \in 0 .. 1439}]

\* minutes east of UTC of the time zone the process runs in: UTC, Pacific
\* Standard Time
LocalTimezones == { 0, -480 }

PlanEqTimes == { -3250 }

\* elevations passed to getTwilightPhase: every threshold, its two neighbours
\* a millidegree away, and values between and beyond
Elevations ==
    UNION { {th - 1, th, th + 1} : th \in {6000, 0, -6000, -12000, -18000} }
        \cup { -90000, -20000, -15000, -8000, -3000, 3000, 10000, 90000 }

-----------------------------------------------------------------------------
(* State machine: one call of calculateSunTimes, or a series of calls of   *)
(* getTwilightPhase                                                        *)

NoTimes == calculateSunTimes(NaNDate, [latitude |-> 0, longitude |-> 0], 0, 0)
NoPosition == getSunPosition(NaNDate, [latitude |-> 0, longitude |-> 0], 0, 0)

\* the calls that may be in progress at the same time
Calls == 1 .. MaxCalls
\* a call that has not begun: the function called, the call's position, its
\* local variables and its result
NoCall == [fn |-> "none", pc |-> "idle", elevation |-> 0, local |-> NaNDate, result |-> <<>>]
\* the argument objects the concurrent calls share, as the caller made them,
\* with the declination and equation of time of the instant
NoArguments ==
    [date |-> NaNDate, coords |-> [latitude |-> 0, longitude |-> 0], decl |-> 0, eqTime |-> 0]
NoRequest == [fn |-> "none"]

Init ==
    /\ pc = "idle"
    /\ date = NaNDate
    /\ coords = [latitude |-> 0, longitude |-> 0]
    /\ decl = 0
    /\ eqTime = 0
    /\ times = NoTimes
    /\ phaseLog = <<>>
    /\ instant = NaNDate
    /\ position = NoPosition
    /\ options = [timezone |-> "undefined"]
    /\ again = [date |-> NaNDate, times |-> NoTimes]
    /\ mutated = [object |-> "none", value |-> NaNDate]
    /\ calls = [i \in Calls |-> NoCall]
    /\ passed = NoArguments
    /\ request = NoRequest
    /\ result = <<>>
    /\ previous = <<>>

CalculateSunTimes ==
    /\ pc = "idle"
    /\ \E d \in Dates, c \in Coordinates, dc \in Declinations, eq \in EqTimes :
          /\ date' = d
          /\ coords' = c
          /\ decl' = dc
          /\ eqTime' = eq
          /\ times' = calculateSunTimes(d, c, dc, eq)
    /\ pc' = "sunTimes"
    /\ UNCHANGED <<phaseLog, posVars, useVars, concVars, planVars>>

GetTwilightPhase ==
    /\ pc \in {"idle", "phase"}
    /\ Len(phaseLog) < MaxPhaseCalls
    /\ \E e \in Elevations :
          phaseLog' = Append(phaseLog, [elevation |-> e, phase |-> getTwilightPhase(e)])
    /\ pc' = "phase"
    /\ UNCHANGED <<sunVars, posVars, useVars, concVars, planVars>>

\* the same call on any valid date and any finite coordinates
CalculateSunTimesAny ==
    /\ pc = "idle"
    /\ \E d \in AnyDates, c \in AnyCoordinates, dc \in Declinations, eq \in EqTimes :
          /\ date' = d
          /\ coords' = c
          /\ decl' = dc
          /\ eqTime' = eq
          /\ times' = calculateSunTimes(d, c, dc, eq)
    /\ pc' = "sunTimes"
    /\ UNCHANGED <<phaseLog, posVars, useVars, concVars, planVars>>

Next == CalculateSunTimes \/ GetTwilightPhase

Spec == Init /\ [][Next]_vars

NextAny == CalculateSunTimesAny \/ GetTwilightPhase

SpecAny == Init /\ [][NextAny]_vars

\* one call of getSunPosition at any instant of the day
GetSunPosition ==
    /\ pc = "idle"
    /\ \E d \in Instants, c \in PositionCoordinates, dc \in PositionDeclinations,
          eq \in EqTimes :
          /\ instant' = d
          /\ coords' = c
          /\ decl' = dc
          /\ eqTime' = eq
          /\ position' = getSunPosition(d, c, dc, eq)
    /\ pc' = "position"
    /\ UNCHANGED <<date, times, phaseLog, useVars, concVars, planVars>>

NextPosition == GetSunPosition

SpecPosition == Init /\ [][NextPosition]_vars

\* a call of calculateSunTimes with an options argument
CalculateSunTimesWithOptions ==
    /\ pc = "idle"
    /\ \E d \in Dates, c \in CallCoordinates, o \in Options,
          dc \in Declinations, eq \in CallEqTimes :
          /\ date' = d
          /\ coords' = c
          /\ options' = o
          /\ decl' = dc
          /\ eqTime' = eq
          /\ times' = calculateSunTimesWithOptions(d, c, o, dc, eq)
    /\ pc' = "sunTimes"
    /\ UNCHANGED <<phaseLog, posVars, again, mutated, concVars, planVars>>

\* a second call, for an instant d2 of the same UTC calendar day.  decl and
\* eqTime are computed from baseDate alone (lines 365-368): they are the first
\* call's values when the two baseDates are the same instant, and any values
\* otherwise.
Recalculate ==
    /\ pc = "sunTimes"
    /\ \E d2 \in SameDayInstants(date) :
          IF setUTCHours(d2, 12) = setUTCHours(date, 12)
          THEN again' = [date |-> d2,
                         times |-> calculateSunTimesWithOptions(d2, coords, options,
                                                                decl, eqTime)]
          ELSE \E dc2 \in Declinations, eq2 \in EqTimes :
                  again' = [date |-> d2,
                            times |-> calculateSunTimesWithOptions(d2, coords, options,
                                                                   dc2, eq2)]
    /\ pc' = "again"
    /\ UNCHANGED <<sunVars, phaseLog, posVars, options, mutated, concVars, planVars>>

\* the caller changes the latitude of the coordinates object it passed
MutateCoordinates ==
    /\ pc = "sunTimes"
    /\ LET v == [coords EXCEPT !.latitude = 0]
       IN  /\ mutated' = [object |-> "coordinates", value |-> v]
           /\ times' = [f \in DOMAIN times |->
                           IF SunTimesObjects[f] = "coords" THEN v ELSE times[f]]
    /\ pc' = "mutated"
    /\ UNCHANGED <<date, coords, decl, eqTime, phaseLog, posVars, options, again,
                   concVars, planVars>>

\* the caller sets the time of one returned Date in place: result.f.setTime(0)
MutateResultDate ==
    /\ pc = "sunTimes"
    /\ \E f \in MutatedFields :
          /\ mutated' = [object |-> f, value |-> Epoch]
          /\ times' = [g \in DOMAIN times |->
                           IF SunTimesObjects[g] = SunTimesObjects[f] THEN Epoch
                           ELSE times[g]]
    /\ pc' = "mutated"
    /\ UNCHANGED <<date, coords, decl, eqTime, phaseLog, posVars, options, again,
                   concVars, planVars>>

\* The caller makes the argument objects that the concurrent calls are all
\* passed.  date and coords are the objects themselves, passed records what
\* they held when they were made.
CreateArguments ==
    /\ pc = "idle"
    /\ \E d \in Dates, c \in CallCoordinates, dc \in ConcurrentDeclinations,
          dcAt \in ConcurrentDeclinations :
          /\ date' = d
          /\ coords' = c
          /\ decl' = dc
          /\ eqTime' = 0
          /\ passed' = [date |-> d, coords |-> c, decl |-> dcAt, eqTime |-> 0]
    /\ pc' = "concurrent"
    /\ UNCHANGED <<times, phaseLog, posVars, useVars, calls, planVars>>

\* mutant: baseDate is the argument itself, normalised in place
NormalizeInPlace(i) ==
    /\ pc = "concurrent"
    /\ calls[i].pc = "idle"
    /\ date' = setUTCHours(date, 12)
    /\ calls' = [calls EXCEPT ![i] = [@ EXCEPT !.fn = "calculateSunTimes",
                                                !.pc = "normalized",
                                                !.local = setUTCHours(date, 12)]]
    /\ UNCHANGED <<pc, coords, decl, eqTime, times, phaseLog, posVars, useVars, passed,
                   planVars>>

\* calculateSunTimes, lines 362-368: baseDate is a copy of the date argument,
\* normalised to noon; the argument is only read
Normalize(i) ==
    /\ pc = "concurrent"
    /\ calls[i].pc = "idle"
    /\ calls' = [calls EXCEPT ![i] = [@ EXCEPT !.fn = "calculateSunTimes",
                                                !.pc = "normalized",
                                                !.local = setUTCHours(date, 12)]]
    /\ UNCHANGED <<pc, sunVars, phaseLog, posVars, useVars, passed, planVars>>

\* calculateSunTimes, lines 371-427: the events are solved from baseDate and
\* from the coordinates object, which getEventTime reads at each call
SolveEvents(i) ==
    /\ pc = "concurrent"
    /\ calls[i].fn = "calculateSunTimes" /\ calls[i].pc = "normalized"
    /\ calls' = [calls EXCEPT ![i] =
                    [@ EXCEPT !.pc = "returned",
                              !.result = calculateSunTimes(calls[i].local, coords, decl,
                                                           eqTime)]]
    /\ UNCHANGED <<pc, sunVars, phaseLog, posVars, useVars, passed, planVars>>

\* getSunPosition, lines 312-323: the UTC fields of the date argument are read
ReadInstant(i) ==
    /\ pc = "concurrent"
    /\ calls[i].pc = "idle"
    /\ calls' = [calls EXCEPT ![i] = [@ EXCEPT !.fn = "getSunPosition",
                                                !.pc = "read",
                                                !.local = date]]
    /\ UNCHANGED <<pc, sunVars, phaseLog, posVars, useVars, passed, planVars>>

\* getSunPosition, lines 325-338
LocateSun(i) ==
    /\ pc = "concurrent"
    /\ calls[i].fn = "getSunPosition" /\ calls[i].pc = "read"
    /\ calls' = [calls EXCEPT ![i] =
                    [@ EXCEPT !.pc = "returned",
                              !.result = getSunPosition(calls[i].local, coords, passed.decl,
                                                        passed.eqTime)]]
    /\ UNCHANGED <<pc, sunVars, phaseLog, posVars, useVars, passed, planVars>>

\* getTwilightPhase, a single step on a number
Classify(i) ==
    /\ pc = "concurrent"
    /\ calls[i].pc = "idle"
    /\ \E e \in ConcurrentElevations :
          calls' = [calls EXCEPT ![i] = [@ EXCEPT !.fn = "getTwilightPhase",
                                                  !.pc = "returned",
                                                  !.elevation = e,
                                                  !.result = getTwilightPhase(e)]]
    /\ UNCHANGED <<pc, sunVars, phaseLog, posVars, useVars, passed, planVars>>

NextConcurrent ==
    \/ CreateArguments
    \/ \E i \in Calls : Normalize(i)
    \/ \E i \in Calls : SolveEvents(i)
    \/ \E i \in Calls : ReadInstant(i)
    \/ \E i \in Calls : LocateSun(i)
    \/ \E i \in Calls : Classify(i)

SpecConcurrent == Init /\ [][NextConcurrent]_vars

\* getSunPosition(times.sunrise, coords) or getSunPosition(times.solarNoon,
\* coords), with the declination and equation of time of that instant
GetSunPositionAtEvent ==
    /\ pc = "sunTimes"
    /\ \E f \in {"sunrise", "solarNoon"}, drift \in Drifts :
          /\ instant' = times[f]
          /\ position' = getSunPosition(times[f], coords, decl + drift.decl,
                                        eqTime + drift.eqTime)
          /\ pc' = IF f = "sunrise" THEN "atSunrise" ELSE "atSolarNoon"
    /\ UNCHANGED <<sunVars, phaseLog, useVars, concVars, planVars>>

\* planAllOptions(route, date, coordinates, mode, options)
PlanAllOptions ==
    /\ pc = "idle"
    /\ \E r \in Routes, d \in Dates, c \in PlanCoordinates, mode \in {"sunrise", "sunset"},
          o \in PlannerOptions, tz \in LocalTimezones,
          dc \in Declinations, eq \in PlanEqTimes :
          /\ request' = [fn |-> "planAllOptions", route |-> r, mode |-> mode,
                         options |-> o, tz |-> tz]
          /\ date' = d
          /\ coords' = c
          /\ decl' = dc
          /\ eqTime' = eq
          /\ result' = planAllOptions(r, d, c, mode, o, tz, dc, eq)
    /\ pc' = "plans"
    /\ UNCHANGED <<times, phaseLog, posVars, useVars, concVars, previous>>

\* createSummary(route, date, target, options): the coordinates are those of
\* the route's high point
CreateSummary ==
    /\ pc = "idle"
    /\ \E r \in Routes, d \in Dates, target \in SunTargets, o \in PlannerOptions,
          dc \in Declinations, eq \in PlanEqTimes :
          /\ request' = [fn |-> "createSummary", route |-> r, target |-> target,
                         options |-> o, tz |-> 0]
          /\ date' = d
          /\ coords' = getDestinationCoordinates(r)
          /\ decl' = dc
          /\ eqTime' = eq
          /\ result' = createSummary(r, d, target, o, 0, dc, eq)
    /\ pc' = "summary"
    /\ UNCHANGED <<times, phaseLog, posVars, useVars, concVars, previous>>

\* plan(route, date, coordinates, target, options)
Plan ==
    /\ pc = "idle"
    /\ \E r \in PlanRoutes, d \in Dates, target \in SunTargets,
          o \in PlanOptions, tz \in LocalTimezones,
          c \in { getDestinationCoordinates(pr) : pr \in PlanRoutes },
          dc \in Declinations, eq \in PlanEqTimes :
          /\ request' = [fn |-> "plan", route |-> r, target |-> target,
                         options |-> o, tz |-> tz]
          /\ date' = d
          /\ coords' = c
          /\ decl' = dc
          /\ eqTime' = eq
          /\ result' = plan(r, d, c, target, o, tz, dc, eq)
    /\ pc' = "planned"
    /\ UNCHANGED <<times, phaseLog, posVars, useVars, concVars, previous>>

NextPlanner == Plan \/ PlanAllOptions \/ CreateSummary

SpecPlanner == Init /\ [][NextPlanner]_vars

\* minutesToDate(baseDate, minutesUTC): instant is the baseDate object after the
\* call, which works on a copy of it
MinutesToDate ==
    /\ pc = "idle"
    /\ \E b \in BaseDates, m \in MinuteOffsets :
          /\ request' = [fn |-> "minutesToDate", baseDate |-> b, minutesUTC |-> m]
          /\ instant' = b
          /\ result' = minutesToDate(b, m)
    /\ pc' = "converted"
    /\ UNCHANGED <<sunVars, phaseLog, position, useVars, concVars, previous>>

NextMinutes == MinutesToDate

\* dateToJulianDay(date) and julianDayToJulianCentury of its result
DateToJulianDay ==
    /\ pc = "idle"
    /\ \E d \in JulianDates :
          /\ request' = [fn |-> "dateToJulianDay", date |-> d]
          /\ result' = [jd |-> dateToJulianDay(d),
                        T |-> julianDayToJulianCentury(dateToJulianDay(d))]
    /\ pc' = "julianDay"
    /\ UNCHANGED <<sunVars, phaseLog, posVars, useVars, concVars, previous>>

\* the same two calls for the same time of the following day
DateToJulianDayNextDay ==
    /\ pc = "julianDay"
    /\ request.date.day < LastJulianDate
    /\ LET d == [request.date EXCEPT !.day = @ + 1]
       IN  /\ request' = [fn |-> "dateToJulianDay", date |-> d]
           /\ result' = [jd |-> dateToJulianDay(d),
                         T |-> julianDayToJulianCentury(dateToJulianDay(d))]
    /\ previous' = result
    /\ pc' = "nextJulianDay"
    /\ UNCHANGED <<sunVars, phaseLog, posVars, useVars, concVars>>

NextJulian == DateToJulianDay \/ DateToJulianDayNextDay

\* sunGeometricMeanLongitude(T) of the Julian century of a date
SunGeometricMeanLongitude ==
    /\ pc = "idle"
    /\ \E d \in LongitudeDates :
          /\ request' = [fn |-> "sunGeometricMeanLongitude", date |-> d,
                         T |-> julianDayToJulianCentury(dateToJulianDay(d))]
          /\ result' = sunGeometricMeanLongitude(
                           julianDayToJulianCentury(dateToJulianDay(d)))
    /\ pc' = "longitude"
    /\ UNCHANGED <<sunVars, phaseLog, posVars, useVars, concVars, previous>>

NextLongitude == SunGeometricMeanLongitude

SpecLongitude == Init /\ [][NextLongitude]_vars

SpecJulian == Init /\ [][NextJulian]_vars

SpecMinutes == Init /\ [][NextMinutes]_vars

NextCalls ==
    \/ CalculateSunTimesWithOptions
    \/ Recalculate
    \/ MutateCoordinates
    \/ MutateResultDate
    \/ GetSunPositionAtEvent

SpecCalls == Init /\ [][NextCalls]_vars

-----------------------------------------------------------------------------
(* Vocabulary of the properties *)

Called == pc = "sunTimes"

\* a.getTime() <= b.getTime(): false when either is NaN
Leq(a, b) ==
    /\ ~a.nan /\ ~b.nan
    /\ (a.day < b.day \/ (a.day = b.day /\ a.ms <= b.ms))

\* a.getTime() < b.getTime()
Lt(a, b) ==
    /\ ~a.nan /\ ~b.nan
    /\ (a.day < b.day \/ (a.day = b.day /\ a.ms < b.ms))

\* the hour-angle solver's three outcomes for a target angle on the day of the call
Reached(angle) == ~hourAngleForElevation(coords.latitude, decl, angle).nan
StaysBelow(angle) == cosHA(coords.latitude, decl, angle) > One
StaysAbove(angle) == cosHA(coords.latitude, decl, angle) < -One

\* the six solved angles with their morning and evening instants
Events ==
    { <<SUNRISE_SUNSET_ANGLE, times.sunrise, times.sunset>>,
      <<CIVIL_TWILIGHT_ANGLE, times.civilTwilightStart, times.civilTwilightEnd>>,
      <<NAUTICAL_TWILIGHT_ANGLE, times.nauticalTwilightStart, times.nauticalTwilightEnd>>,
      <<ASTRONOMICAL_TWILIGHT_ANGLE, times.astronomicalTwilightStart,
        times.astronomicalTwilightEnd>>,
      <<GOLDEN_HOUR_END_ANGLE, times.goldenHourMorningEnd, times.goldenHourEveningStart>>,
      <<BLUE_HOUR_END_ANGLE, times.blueHourMorningEnd, times.blueHourEveningStart>> }

\* the angles of the morning chain, lowest first
ChainAngles ==
    { ASTRONOMICAL_TWILIGHT_ANGLE, NAUTICAL_TWILIGHT_ANGLE, CIVIL_TWILIGHT_ANGLE,
      SUNRISE_SUNSET_ANGLE }

MorningChain ==
    /\ Leq(times.astronomicalTwilightStart, times.nauticalTwilightStart)
    /\ Leq(times.nauticalTwilightStart, times.civilTwilightStart)
    /\ Leq(times.civilTwilightStart, times.sunrise)
    /\ Leq(times.sunrise, times.solarNoon)

EveningChain ==
    /\ Leq(times.sunset, times.civilTwilightEnd)
    /\ Leq(times.civilTwilightEnd, times.nauticalTwilightEnd)
    /\ Leq(times.nauticalTwilightEnd, times.astronomicalTwilightEnd)

\* the instants getEventTime returns for an angle that is never reached
FallbackMorning ==
    minutesToDate(times.date, Fl(solarNoonMinutes(coords.longitude, eqTime) - 720000))
FallbackEvening ==
    minutesToDate(times.date, Fl(solarNoonMinutes(coords.longitude, eqTime) + 720000))

-----------------------------------------------------------------------------
(* C1 *)

\* C1 as stated: in every SunTimes, fallback days included,
\* astronomicalTwilightStart <= nauticalTwilightStart <= civilTwilightStart
\* <= sunrise <= solarNoon.
C1_TwilightOrderAlways == Called => MorningChain

\* C1 amended: the morning chain holds in every SunTimes except when an angle of
\* the chain is reached while a higher angle of the chain is never reached because
\* the sun stays below it all day.
C1_TwilightOrderUnlessSunStaysBelow ==
    (Called /\ ~(\E lo \in ChainAngles, hi \in ChainAngles :
                    lo < hi /\ Reached(lo) /\ StaysBelow(hi)))
        => MorningChain

\* a midnight-sun day: astronomical twilight takes the fallback, the sun rises
C1_Witness ==
    /\ Called
    /\ StaysAbove(ASTRONOMICAL_TWILIGHT_ANGLE)
    /\ Reached(SUNRISE_SUNSET_ANGLE)
    /\ Lt(times.astronomicalTwilightStart, times.sunrise)

(* C2 *)

\* C2 as stated: in every SunTimes golden hour lies within civil twilight,
\* goldenHourMorningStart >= civilTwilightStart and
\* goldenHourEveningEnd <= civilTwilightEnd.
C2_GoldenWithinCivilAlways ==
    Called => /\ Leq(times.civilTwilightStart, times.goldenHourMorningStart)
              /\ Leq(times.goldenHourEveningEnd, times.civilTwilightEnd)

\* C2 amended: golden hour lies within civil twilight except on days when -6 deg
\* is reached while the sun stays below -0.833 deg all day.
C2_GoldenWithinCivilUnlessNoSunrise ==
    (Called /\ ~(Reached(CIVIL_TWILIGHT_ANGLE) /\ StaysBelow(SUNRISE_SUNSET_ANGLE)))
        => /\ Leq(times.civilTwilightStart, times.goldenHourMorningStart)
           /\ Leq(times.goldenHourEveningEnd, times.civilTwilightEnd)

\* civil twilight lasts all night (fallback), the sun rises and sets
C2_Witness ==
    /\ Called
    /\ StaysAbove(CIVIL_TWILIGHT_ANGLE)
    /\ Reached(SUNRISE_SUNSET_ANGLE)
    /\ Lt(times.civilTwilightStart, times.goldenHourMorningStart)
    /\ Lt(times.goldenHourEveningEnd, times.civilTwilightEnd)

(* C3 *)

\* C3: at a non-polar location (|latitude| <= 60) the sun reaches -0.833 deg, each
\* twilight angle is reached or the sun stays above it, and the events form one
\* chain around solar noon, strict on both sides of solarNoon.
C3_NonPolarChain ==
    (Called /\ Abs(coords.latitude) <= 60000)
        => /\ Reached(SUNRISE_SUNSET_ANGLE)
           /\ \A a \in ChainAngles : Reached(a) \/ StaysAbove(a)
           /\ MorningChain
           /\ EveningChain
           /\ Lt(times.sunrise, times.solarNoon)
           /\ Lt(times.solarNoon, times.sunset)

\* latitude 60 at the summer solstice: no astronomical night, still one chain
C3_Witness ==
    /\ Called
    /\ Abs(coords.latitude) = 60000
    /\ StaysAbove(ASTRONOMICAL_TWILIGHT_ANGLE)
    /\ Lt(times.civilTwilightStart, times.sunrise)
    /\ Lt(times.sunset, times.civilTwilightEnd)

(* C4 *)

C5_FallbackExactlyTwelveHours ==
    Called => \A e \in Events :
                 ~Reached(e[1]) =>
                     /\ DiffMinutes(times.solarNoon, e[2]) = 720
                     /\ DiffMinutes(e[3], times.solarNoon) = 720
                     /\ DiffMinutes(e[3], e[2]) = 1440

(* C6 *)

\* C6 as stated: for every valid date and all finite coordinates every Date field
\* of the result is a valid instant and dayLength is a number.
C6_AlwaysValidInstants ==
    Called => /\ ~times.date.nan
              /\ ~times.solarNoon.nan
              /\ \A e \in Events : ~e[2].nan /\ ~e[3].nan
              /\ ~times.goldenHourMorningStart.nan
              /\ ~times.goldenHourEveningEnd.nan
              /\ ~times.blueHourMorningStart.nan
              /\ ~times.blueHourEveningEnd.nan
              /\ ~times.dayLength.nan

(* C7 *)

\* C7 as stated: the instant returned for an angle that is reached is never the
\* instant returned for an unreachable angle with the same longitude and
\* equation of time.
C7_FallbackDistinguishable ==
    Called => \A e \in Events :
                 Reached(e[1]) => e[2] # FallbackMorning /\ e[3] # FallbackEvening

(* C8 *)

PhaseIndex(p) ==
    CASE p = "night" -> 0
      [] p = "astronomical" -> 1
      [] p = "nautical" -> 2
      [] p = "civil" -> 3
      [] p = "golden" -> 4
      [] p = "day" -> 5

\* C9: getTwilightPhase is monotonic: for elevations a <= b the phase of a comes
\* no later than the phase of b in [night, astronomical, nautical, civil, golden, day].
C9_PhaseMonotonic ==
    \A i \in DOMAIN phaseLog, j \in DOMAIN phaseLog :
        phaseLog[i].elevation <= phaseLog[j].elevation
            => PhaseIndex(phaseLog[i].phase) <= PhaseIndex(phaseLog[j].phase)

\* two calls, the second a millidegree higher and across a threshold
C9_Witness ==
    /\ Len(phaseLog) = 2
    /\ phaseLog[2].elevation = phaseLog[1].elevation + 1
    /\ PhaseIndex(phaseLog[1].phase) < PhaseIndex(phaseLog[2].phase)

(* C10 *)

\* C10: goldenHourMorningStart is sunrise, goldenHourEveningEnd is sunset,
\* blueHourMorningStart is civilTwilightStart and blueHourEveningEnd is
\* civilTwilightEnd, in ordinary and in fallback cases.
C10_DerivedBoundariesAreAliases ==
    Called => /\ times.goldenHourMorningStart = times.sunrise
              /\ times.goldenHourEveningEnd = times.sunset
              /\ times.blueHourMorningStart = times.civilTwilightStart
              /\ times.blueHourEveningEnd = times.civilTwilightEnd

\* a polar-night day: sunrise is a fallback instant, civil twilight is solved
C10_Witness ==
    /\ Called
    /\ StaysBelow(SUNRISE_SUNSET_ANGLE)
    /\ Reached(CIVIL_TWILIGHT_ANGLE)
    /\ times.goldenHourMorningStart = FallbackMorning
    /\ times.blueHourMorningStart # FallbackMorning

(* C11 *)

PositionCalled == pc = "position"

\* C11 as stated: for every instant and every finite coordinate pair the azimuth
\* of getSunPosition is a number in [0, 360), never negative and never exactly
\* 360, also when the arccosine is 0 and the hour angle is positive.
C11_AzimuthHalfOpen ==
    PositionCalled => /\ ~position.azimuth.nan
                      /\ position.azimuth.v >= 0
                      /\ position.azimuth.v < 360000

(* C12 *)

\* the true hour angle of the instant, times 4: the minutes since the nearest
\* local solar noon, in (-720, 720] minutes
TrueHourAngleMinutes ==
    LET t == ((hourAngleMinutes(instant, coords.longitude, eqTime) + 720000) % 1440000)
                 - 720000
    IN  IF t = -720000 THEN 720000 ELSE t

\* C12 as stated: the azimuth is in the western half (>= 180) exactly when the
\* instant lies in the local solar afternoon (true hour angle in (0, 180]), and
\* in [0, 180] otherwise, for every longitude and every UTC time of day.
C12_WestExactlyInAfternoon ==
    (PositionCalled /\ ~position.azimuth.nan)
        => IF TrueHourAngleMinutes > 0
           THEN position.azimuth.v >= 180000
           ELSE position.azimuth.v <= 180000

(* C13 *)

\* the four photography windows: lower angle, upper angle, start and end
Windows ==
    { <<SUNRISE_SUNSET_ANGLE, GOLDEN_HOUR_END_ANGLE,
        times.goldenHourMorningStart, times.goldenHourMorningEnd>>,
      <<SUNRISE_SUNSET_ANGLE, GOLDEN_HOUR_END_ANGLE,
        times.goldenHourEveningStart, times.goldenHourEveningEnd>>,
      <<CIVIL_TWILIGHT_ANGLE, BLUE_HOUR_END_ANGLE,
        times.blueHourMorningStart, times.blueHourMorningEnd>>,
      <<CIVIL_TWILIGHT_ANGLE, BLUE_HOUR_END_ANGLE,
        times.blueHourEveningStart, times.blueHourEveningEnd>> }

\* C13 as stated: in every SunTimes each photography window has its start not
\* later than its end, also on days on which the sun reaches -0.833 deg but never
\* +6 deg, or reaches -6 deg but never -4 deg.
C13_WindowsWellFormedAlways ==
    Called => \A w \in Windows : Leq(w[3], w[4])

\* C13 amended: each photography window has its start not later than its end,
\* except a window whose lower angle is reached on a day the sun never reaches
\* its upper angle.
C13_WindowsWellFormedUnlessUpperUnreached ==
    Called => \A w \in Windows :
                 ~(Reached(w[1]) /\ ~Reached(w[2])) => Leq(w[3], w[4])

\* a midnight-sun day: the golden hour starts at the fallback instant and ends
\* at a solved one, the blue hour is two fallback instants
C13_Witness ==
    /\ Called
    /\ StaysAbove(SUNRISE_SUNSET_ANGLE)
    /\ Reached(GOLDEN_HOUR_END_ANGLE)
    /\ Lt(times.goldenHourMorningStart, times.goldenHourMorningEnd)
    /\ Lt(times.goldenHourEveningStart, times.goldenHourEveningEnd)
    /\ times.blueHourMorningStart = times.blueHourMorningEnd

(* C14 *)

\* C14: the options argument has no effect: every field of the SunTimes returned
\* for a date, coordinates and options is the field returned for the same date
\* and coordinates and any other options, the omitted one included.
C14_OptionsHaveNoEffect ==
    Called => \A o \in Options :
                 calculateSunTimesWithOptions(date, coords, o, decl, eqTime) = times

\* a call that named a time zone
C14_Witness ==
    /\ Called
    /\ options.timezone = "America/Denver"
    /\ ~times.sunrise.nan
    /\ times = calculateSunTimesWithOptions(date, coords, [timezone |-> "undefined"],
                                            decl, eqTime)

(* C15 *)

Recalculated == pc = "again"

\* C15: two instants of the same UTC calendar day give identical SunTimes, whose
\* date field is 12:00:00.000 UTC of that day; recomputing from the date field
\* of a result reproduces the result.
C15_DependsOnUtcDayOnly ==
    Recalculated =>
        /\ again.date.day = date.day
        /\ again.times = times
        /\ times.date = [nan |-> FALSE, day |-> date.day, ms |-> 12 * 60 * MsPerMinute]

\* the second call was made on the date field of the first result, which is not
\* the instant the first call was given
C15_Witness ==
    /\ Recalculated
    /\ again.date = times.date
    /\ again.date # date
    /\ again.times = times
    /\ ~times.sunrise.nan

(* C16 *)

\* the SunTimes as it was returned
Returned == calculateSunTimesWithOptions(date, coords, options, decl, eqTime)

\* C16 as stated: a SunTimes shares no mutable object with the caller's inputs
\* or between its fields: mutating the coordinates object that was passed does
\* not change result.coordinates, and mutating one returned Date in place
\* changes no other field of the result.
C16_NoSharedObjects ==
    pc = "mutated" =>
        IF mutated.object = "coordinates"
        THEN times.coordinates = Returned.coordinates
        ELSE \A g \in DOMAIN times \ {mutated.object} : times[g] = Returned[g]

(* C17 *)

\* the result of call i when it runs alone on the arguments as they were passed
Alone(i) ==
    CASE calls[i].fn = "calculateSunTimes" ->
             calculateSunTimes(passed.date, passed.coords, decl, eqTime)
      [] calls[i].fn = "getSunPosition" ->
             getSunPosition(passed.date, passed.coords, passed.decl, passed.eqTime)
      [] calls[i].fn = "getTwilightPhase" -> getTwilightPhase(calls[i].elevation)

\* C17: under any interleaving of concurrent calls of calculateSunTimes,
\* getSunPosition and getTwilightPhase on the same argument objects, the date
\* and coordinates arguments are never changed, each call returns the result it
\* returns when run alone, and two calls with identical inputs return identical
\* outputs.
C17_CallsDoNotInterfere ==
    pc = "concurrent" =>
        /\ date = passed.date
        /\ coords = passed.coords
        /\ \A i \in Calls : calls[i].pc = "returned" => calls[i].result = Alone(i)
        /\ \A i \in Calls, j \in Calls :
              (/\ calls[i].pc = "returned" /\ calls[j].pc = "returned"
               /\ calls[i].fn = calls[j].fn
               /\ calls[i].elevation = calls[j].elevation)
                  => calls[i].result = calls[j].result

\* getSunPosition ran from start to end on a date that is not noon while a call
\* of calculateSunTimes on the same date object was between its two steps
C17_Witness ==
    /\ pc = "concurrent"
    /\ passed.date.ms # 12 * 60 * MsPerMinute
    /\ calls[1].fn = "calculateSunTimes" /\ calls[1].pc = "normalized"
    /\ calls[2].fn = "getSunPosition" /\ calls[2].pc = "returned"
    /\ ~calls[2].result.elevation.nan

(* C18 *)

\* the locations of the scenario: latitudes between 30 and 40 degrees, north
\* or south; winter is the season of that hemisphere, the sun at least 10
\* degrees on the other side of the equator
MidLatitude == Abs(coords.latitude) >= 30000 /\ Abs(coords.latitude) <= 40000
Winter ==
    \/ coords.latitude > 0 /\ decl <= -10000
    \/ coords.latitude < 0 /\ decl >= 10000

AlternativesOfModeWithoutPrimary ==
    \A i \in DOMAIN result.alternatives :
        /\ isSunriseTarget(result.alternatives[i].target) = isSunriseTarget(request.target)
        /\ result.alternatives[i].target # request.target

\* C19 as stated: for every one of the ten SunTarget values as primary target
\* createSummary returns exactly two alternatives, both of the primary target's
\* mode and neither having the primary target.
C19_TwoAlternativesAlways ==
    pc = "summary" =>
        /\ result.plan.target = request.target
        /\ Len(result.alternatives) = 2
        /\ AlternativesOfModeWithoutPrimary

\* C19 amended: the alternatives are the plans of the three targets planned for
\* the primary target's mode, in their order, without the primary target: two
\* when the primary target is one of those three, all three otherwise.
C19_AlternativesAreModeTargetsWithoutPrimary ==
    pc = "summary" =>
        LET mode == IF isSunriseTarget(request.target) THEN "sunrise" ELSE "sunset"
            three == { ModeTargets(mode)[i] : i \in 1 .. 3 }
        IN  /\ result.plan.target = request.target
            /\ Len(result.alternatives) = IF request.target \in three THEN 2 ELSE 3
            /\ { result.alternatives[i].target : i \in DOMAIN result.alternatives }
                   = three \ {request.target}
            /\ AlternativesOfModeWithoutPrimary

\* a summary whose primary target is one of the three planned for its mode
C19_Witness ==
    /\ pc = "summary"
    /\ request.target = "sunset"
    /\ Len(result.alternatives) = 2
    /\ result.alternatives[1].target = "goldenHourEveningStart"
    /\ result.alternatives[2].target = "blueHourEveningEnd"

(* C20 *)

\* the plans are one per target of the mode, in the order of the targets
OnePlanPerModeTarget ==
    /\ Len(result) = 3
    /\ \A i \in 1 .. 3 : result[i].target = ModeTargets(request.mode)[i]

PairwiseDifferentStarts ==
    \A i \in DOMAIN result, j \in DOMAIN result :
        i # j => /\ ~result[i].startTime.nan
                 /\ ~result[j].startTime.nan
                 /\ result[i].startTime # result[j].startTime

\* C20 as stated: planAllOptions returns exactly three plans, one per target of
\* the mode, with pairwise different start times, also where calculateSunTimes
\* uses its fallback instant for some of the targets.
C20_ThreeDistinctPlansAlways ==
    pc = "plans" => OnePlanPerModeTarget /\ PairwiseDifferentStarts

\* C20 amended: planAllOptions returns exactly three plans, one per target of
\* the mode; their start times are pairwise different when the sun reaches all
\* three angles of the targets (-6, -0.833 and +6 deg) on that day.
C20_ThreeDistinctPlansWhenReached ==
    pc = "plans" =>
        /\ OnePlanPerModeTarget
        /\ (/\ Reached(CIVIL_TWILIGHT_ANGLE)
            /\ Reached(SUNRISE_SUNSET_ANGLE)
            /\ Reached(GOLDEN_HOUR_END_ANGLE)) => PairwiseDifferentStarts

\* three sunrise plans on a day with a sunrise, in start order
C20_Witness ==
    /\ pc = "plans"
    /\ request.mode = "sunrise"
    /\ Reached(CIVIL_TWILIGHT_ANGLE)
    /\ Reached(GOLDEN_HOUR_END_ANGLE)
    /\ Lt(result[1].startTime, result[2].startTime)
    /\ Lt(result[2].startTime, result[3].startTime)

(* C21 *)

\* the estimator's duration for the route of the request, in milliminutes
RequestedEstimate ==
    estimateDuration(getRouteToIndex(request.route, findHighPointIndex(request.route)),
                     IF "params" \in DOMAIN request.options THEN request.options.params
                     ELSE defaultParams)

RequestedBuffer ==
    IF "bufferMinutes" \in DOMAIN request.options THEN request.options.bufferMinutes ELSE 10

RequestedMultiplier ==
    IF "nightMultiplier" \in DOMAIN request.options THEN request.options.nightMultiplier
    ELSE defaultNightMultiplier

\* the night adjustment applies: a sunrise target, and applyNightAdjustment not
\* switched off
NightAdjusted ==
    /\ request.target \in SunriseTargets
    /\ ("applyNightAdjustment" \in DOMAIN request.options
           => request.options.applyNightAdjustment)

\* C21: plan() returns startTime = targetTime - bufferMinutes - durationMinutes
\* (to the millisecond a Date holds), where targetTime is the SunTimes instant
\* the target selects, bufferMinutes defaults to 10, and durationMinutes is the
\* estimator's duration divided by the night multiplier exactly when the target
\* is a sunrise target and applyNightAdjustment is true; for a sunset target it
\* is the estimator's duration whatever applyNightAdjustment is.
C21_StartTimeFormula ==
    pc = "planned" =>
        LET since == DiffMs(result.targetTime, result.startTime)
                         - RequestedBuffer * MsPerMinute
        IN  /\ result.target = request.target
            /\ result.targetTime
                   = getTargetTime(calculateSunTimes(date, coords, decl, eqTime),
                                   request.target)
            /\ result.bufferMinutes = RequestedBuffer
            /\ ~result.startTime.nan
            /\ IF NightAdjusted
               THEN /\ 2 * Abs(result.durationMinutes * RequestedMultiplier
                                   - RequestedEstimate * 10) <= RequestedMultiplier
                    /\ since * RequestedMultiplier >= RequestedEstimate * 600
                    /\ (since - 1) * RequestedMultiplier < RequestedEstimate * 600
               ELSE /\ result.durationMinutes = RequestedEstimate
                    /\ since = RequestedEstimate * 60

\* a plan for a sunrise target other than "sunrise", lengthened by a night
\* multiplier of 0.7
C21_Witness ==
    /\ pc = "planned"
    /\ request.target = "goldenHourEnd"
    /\ NightAdjusted
    /\ RequestedMultiplier = 7
    /\ result.durationMinutes > RequestedEstimate
    /\ Lt(result.startTime, result.targetTime)

(* C22 *)

\* the cutoff of the request: 22:00 of the day before `date` for a sunrise
\* target, 06:00 of the day of `date` for a sunset target, in local time
Cutoff ==
    IF request.target \in SunriseTargets THEN localHourOfDay(date, request.tz, 22, 1)
    ELSE localHourOfDay(date, request.tz, 6, 0)

\* C22: plan() sets feasible to true exactly when startTime is at or after the
\* cutoff; shortBy is undefined exactly when feasible is true, and when feasible
\* is false shortBy is a positive whole number, the minutes by which startTime
\* precedes the cutoff.
C22_FeasibleAndShortBy ==
    pc = "planned" =>
        /\ result.feasible = ~Lt(result.startTime, Cutoff)
        /\ (result.shortBy = Undefined) = result.feasible
        /\ ~result.feasible =>
              /\ result.shortBy # NaN
              /\ result.shortBy.v > 0
              /\ 2 * Abs(DiffMs(Cutoff, result.startTime) - result.shortBy.v * MsPerMinute)
                     <= MsPerMinute

(* C23 *)

\* C23: for any base date and any finite minutes value m, fractional, negative
\* or greater than 1440, minutesToDate returns the instant exactly m minutes
\* after 00:00:00.000 UTC of the base date's UTC calendar day, and leaves the
\* base date unchanged.
C23_ExactlyMinutesAfterMidnight ==
    (pc = "converted" /\ ~request.baseDate.nan) =>
        /\ result = AddMs([nan |-> FALSE, day |-> request.baseDate.day, ms |-> 0],
                          request.minutesUTC * 60)
        /\ instant = request.baseDate

(* C24 *)

\* C24: for every UTC calendar date from 1901-01-01 through 2099-12-31 and every
\* whole-second time of day dateToJulianDay returns the true Julian Day of the
\* instant (the Julian Day of 1970-01-01 00:00 UTC is 2440587.5), and
\* julianDayToJulianCentury the centuries of 36525 days since 2000-01-01 12:00.
C24_TrueJulianDay ==
    (/\ pc \in {"julianDay", "nextJulianDay"}
     /\ getUTCFullYear(request.date) >= 1901
     /\ getUTCFullYear(request.date) <= 2099) =>
        /\ result.jd = [nan |-> FALSE, whole |-> request.date.day + 2440587,
                        sec |-> request.date.ms \div 1000]
        \* 2000-01-01 12:00 UTC is half a day after the beginning of day 10957
        /\ result.T.whole
               = request.date.day - 10958 + IF request.date.ms >= 43200000 THEN 1 ELSE 0
        /\ result.T.sec
               = IF request.date.ms >= 43200000 THEN (request.date.ms \div 1000) - 43200
                 ELSE (request.date.ms \div 1000) + 43200

\* 2000-01-01 12:00:00 UTC gives 2451545.0 and T = 0
C24_Witness ==
    /\ pc = "julianDay"
    /\ request.date = [nan |-> FALSE, day |-> 10957, ms |-> 43200000]
    /\ result.jd = [nan |-> FALSE, whole |-> 2451544, sec |-> 43200]
    /\ result.T = [nan |-> FALSE, whole |-> 0, sec |-> 0]

(* C25 *)

\* C25: for every pair of consecutive UTC calendar days, the pairs 1900-02-28 /
\* 1900-03-01 and 2100-02-28 / 2100-03-01 included, the values of
\* dateToJulianDay at the same time of day differ by exactly 1.
C25_ConsecutiveDaysDifferByOne ==
    pc = "nextJulianDay" =>
        /\ result.jd.whole = previous.jd.whole + 1
        /\ result.jd.sec = previous.jd.sec


-----------------------------------------------------------------------------
(* C26 *)

\* C26: sunGeometricMeanLongitude returns a value of [0, 360) that is congruent
\* modulo 360 to 280.46646 + T * (36000.76983 + 0.0003032 * T), and never 360,
\* also when that sum is an exact positive multiple of 360.
C26_MeanLongitudeHalfOpen ==
    pc = "longitude" =>
        /\ ~result.nan
        /\ 0 <= result.v /\ result.v < 360000
        /\ (result.v - meanLongitudeOf(request.T)) % 360000 = 0


-----------------------------------------------------------------------------
(* C27, C28 *)

\* hourAngle of getSunPosition in millidegrees
PositionHourAngle == RoundDiv(hourAngleMinutes(instant, coords.longitude, eqTime), 4)

AtPole == coords.latitude \in {-90000, 90000}
\* the sun straight overhead or straight underfoot
AtZenith == coords.latitude = decl /\ PositionHourAngle = 0
AtNadir == coords.latitude = -decl /\ Abs(PositionHourAngle) = 180000

\* C27: at latitude +-90 and with the sun at the zenith or nadir the azimuth
\* getSunPosition returns is a number of [0, 360], never NaN.
C27_AzimuthDefinedAtSingularity ==
    (PositionCalled /\ (AtPole \/ AtZenith \/ AtNadir)) =>
        /\ ~position.azimuth.nan
        /\ position.azimuth.v >= 0
        /\ position.azimuth.v <= 360000

\* C28: neither the elevation nor the azimuth getSunPosition returns for a
\* valid date is NaN: sinElev and cosAz are clamped into [-1, 1] before
\* Math.asin and Math.acos.
C28_NoDomainError ==
    (PositionCalled /\ ~instant.nan) =>
        /\ ~position.elevation.nan
        /\ ~position.azimuth.nan


-----------------------------------------------------------------------------
(* C29 *)

-----------------------------------------------------------------------------
(* C30 *)

\* the minute offset getEventTime passes to minutesToDate for an angle, in
\* milliminutes
ExactMinutes(angle, isMorning) ==
    eventMinutes(coords.longitude, eqTime,
                 hourAngleForElevation(coords.latitude, decl, angle), isMorning)

\* every instant of the result that minutesToDate made, with its exact offset
Truncations ==
    { <<ExactMinutes(e[1], TRUE), e[2]>> : e \in Events }
        \cup { <<ExactMinutes(e[1], FALSE), e[3]>> : e \in Events }
        \cup { <<solarNoonMinutes(coords.longitude, eqTime), times.solarNoon>> }

\* whole minutes from midnight UTC of the base day to the instant t
MinuteOf(t) == (t.day - times.date.day) * MinutesPerDay + (t.ms \div MsPerMinute)

\* C30: every event instant is a whole minute, floor(m) minutes after midnight
\* UTC of the base day for an offset m >= 0 and ceil(m) for m < 0, so less than
\* a minute from the exact time; dayLength is a whole number of minutes; two
\* events keep the order of their exact times.
C30_WholeMinutesTruncatedTowardZero ==
    Called =>
        /\ \A x \in Truncations :
              /\ ~x[2].nan
              /\ x[2].ms % MsPerMinute = 0
              /\ x[1] >= 0 => /\ MinuteOf(x[2]) * 1000 <= x[1]
                              /\ x[1] < (MinuteOf(x[2]) + 1) * 1000
              /\ x[1] < 0 => /\ (MinuteOf(x[2]) - 1) * 1000 < x[1]
                             /\ x[1] <= MinuteOf(x[2]) * 1000
        /\ ~times.dayLength.nan
        /\ DiffMs(times.sunset, times.sunrise) % MsPerMinute = 0
        /\ times.dayLength.v * MsPerMinute = DiffMs(times.sunset, times.sunrise)
        /\ \A x, y \in Truncations : x[1] <= y[1] => Leq(x[2], y[2])

\* a day with an event before midnight UTC of the base day at a fractional
\* offset, moved later to the whole minute, and one after it, moved earlier:
\* truncation brings the two closer and keeps their order
C30_Witness ==
    /\ Called
    /\ \E x, y \in Truncations :
          /\ x[1] < 0 /\ x[1] % 1000 # 0
          /\ y[1] > 0 /\ y[1] % 1000 # 0
          /\ MinuteOf(x[2]) * 1000 > x[1]
          /\ MinuteOf(y[2]) * 1000 < y[1]
          /\ Lt(x[2], y[2])

====
